---------------------------- MODULE Spec2Model ----------------------------
(***************************************************************************)
(* A model of the YouTube content extractor: the component                 *)
(* YouTubeCommentScraper (src/src/components/YouTubeCommentScraper.tsx)    *)
(* and the service functions getComments / getVideoDetails /               *)
(* getTranscription (src/unnamed/part_002, src/unnamed/part_003).          *)
(*                                                                         *)
(* A JavaScript string is modelled as a sequence of pieces.  Wherever the  *)
(* code looks inside a string (the tag-stripping regex, the URL parser,    *)
(* includes, substring) the pieces are single characters; fixed literals   *)
(* that the code only concatenates may be one longer piece.  Flat(s) is    *)
(* the string itself.                                                      *)
(***************************************************************************)
EXTENDS Naturals, Sequences, FiniteSets, TLC

VARIABLES
    youtubeApiKey,   \* useState('')            component state, line 36
    videoId,         \* useState('')            line 37
    inputValue,      \* e.target.value of the last change of the identifier field
    loading,         \* useState(false)         line 38
    scrapeMode,      \* useState('comments')    line 39
    downloadFiles,   \* useState(null)          line 40
    toasts,          \* the notifications shown by toast(...) since the last user action
    op,              \* the locals of the running fetchAndPrepareDownloads flow
    net,             \* the remote requests issued and not yet answered
    opCount,         \* number of flows started so far
    svc,             \* a direct call of a service function (SpecService)
    urlParts,        \* the components an input of extractVideoId was built from
    urlIn,           \* the input of extractVideoId (SpecUrl)
    urlOut,          \* its result
    stripIn,         \* a display text (SpecStrip)
    stripOut,        \* the text after tag stripping
    cleanIn,         \* a video title (SpecClean)
    cleanOut         \* the results of cleanFileName applied to it once, then again

mainVars == <<youtubeApiKey, videoId, inputValue, loading, scrapeMode,
              downloadFiles, toasts, op, net, opCount>>
svcVars == <<svc>>
urlVars == <<urlParts, urlIn, urlOut>>
stripVars == <<stripIn, stripOut>>
cleanVars == <<cleanIn, cleanOut>>
vars == <<youtubeApiKey, videoId, inputValue, loading, scrapeMode, downloadFiles,
          toasts, op, net, opCount, svc, urlParts, urlIn, urlOut,
          stripIn, stripOut, cleanIn, cleanOut>>

-----------------------------------------------------------------------------
(* Bounds of the model *)

\* Flows started in one behaviour.
MaxOps == 2
\* Pages the remote serves for one video before it must stop handing out tokens.
MaxPages == 3
\* Length of the display texts enumerated for tag stripping.
MaxLen == 5
\* Length of the titles enumerated for cleanFileName.
MaxTitleLen == 3

-----------------------------------------------------------------------------
(* Strings *)

Undefined == "undefined"
Null == "null"
NotCalled == "not called"

RECURSIVE Flat(_)
Flat(s) ==
    IF s = <<>> THEN ""
    ELSE IF Len(s) = 1 THEN s[1]
    ELSE LET h == Len(s) \div 2
         IN  Flat(SubSeq(s, 1, h)) \o Flat(SubSeq(s, h + 1, Len(s)))

LowerLetters == <<"a", "b", "c", "d", "e", "f", "g", "h", "i", "j", "k", "l", "m", "n", "o", "p", "q", "r", "s", "t", "u", "v", "w", "x", "y", "z">>
UpperLetters == <<"A", "B", "C", "D", "E", "F", "G", "H", "I", "J", "K", "L", "M", "N", "O", "P", "Q", "R", "S", "T", "U", "V", "W", "X", "Y", "Z">>
Digits == <<"0", "1", "2", "3", "4", "5", "6", "7", "8", "9">>

Range(s) == {s[i] : i \in 1..Len(s)}

\* String.prototype.toLowerCase on one character (ASCII letters).
LowerChar(c) ==
    IF \E i \in 1..26 : UpperLetters[i] = c
    THEN LowerLetters[CHOOSE i \in 1..26 : UpperLetters[i] = c]
    ELSE c

ToLower(s) == [i \in 1..Len(s) |-> LowerChar(s[i])]

\* The first index >= from whose character is in cs; Len(s) + 1 when none is.
IndexOfAny(s, cs, from) ==
    IF \E i \in from..Len(s) : s[i] \in cs
    THEN CHOOSE i \in from..Len(s) :
            s[i] \in cs /\ \A k \in from..(i - 1) : s[k] \notin cs
    ELSE Len(s) + 1

\* String.prototype.includes
Includes(s, pat) ==
    \E i \in 0..Len(s) :
        /\ i + Len(pat) <= Len(s)
        /\ \A k \in 1..Len(pat) : s[i + k] = pat[k]

\* String.prototype.substring(from) with a 0-based start.
Substring(s, from) == SubSeq(s, from + 1, Len(s))

-----------------------------------------------------------------------------
(* Tag stripping: textDisplay.replace(/<[^>]*>?/gm, '') *)

\* The last index of the match of /<[^>]*>?/ that starts at i, 0 when the
\* pattern does not match at i.  [^>]* is greedy and also runs over line
\* breaks and further '<'; the closing '>' is optional.
TagEndRequireClose(s, i) ==
    IF s[i] # "<" THEN 0
    ELSE LET j == IndexOfAny(s, {">"}, i + 1)
         IN  IF j <= Len(s) THEN j ELSE 0

TagEnd(s, i) ==
    IF s[i] # "<" THEN 0
    ELSE LET j == IndexOfAny(s, {">"}, i + 1)
         IN  IF j <= Len(s) THEN j ELSE Len(s)

\* The global replace: scan left to right, drop each match, keep the rest.
RECURSIVE StripFrom(_, _)
StripFrom(s, i) ==
    IF i > Len(s) THEN <<>>
    ELSE LET e == TagEnd(s, i)
         IN  IF e = 0 THEN <<s[i]>> \o StripFrom(s, i + 1)
             ELSE StripFrom(s, e + 1)

StripTags(s) == StripFrom(s, 1)

-----------------------------------------------------------------------------
(* new URL(url): the WHATWG parser on the inputs enumerated below: no       *)
(* base URL, no userinfo, no port, no percent escapes, no dot segments.    *)

SchemeChars == Range(LowerLetters) \cup Range(UpperLetters) \cup Range(Digits)
                 \cup {"+", "-", "."}
AlphaChars == Range(LowerLetters) \cup Range(UpperLetters)

S_https == <<"h", "t", "t", "p", "s">>
S_http == <<"h", "t", "t", "p">>
SpecialSchemes == {S_https, S_http}

ParseFailure == [ok |-> FALSE]

\* application/x-www-form-urlencoded decoding of a name or a value.
FormDecode(s) == [i \in 1..Len(s) |-> IF s[i] = "+" THEN " " ELSE s[i]]

\* URLSearchParams: split on '&', drop empty pieces, split each on its first '='.
RECURSIVE ParseQuery(_)
ParseQuery(q) ==
    IF q = <<>> THEN <<>>
    ELSE LET a == IndexOfAny(q, {"&"}, 1)
             piece == SubSeq(q, 1, a - 1)
             rest == SubSeq(q, a + 1, Len(q))
             e == IndexOfAny(piece, {"="}, 1)
             pair == [name |-> FormDecode(SubSeq(piece, 1, e - 1)),
                      value |-> FormDecode(SubSeq(piece, e + 1, Len(piece)))]
         IN  IF piece = <<>> THEN ParseQuery(rest)
             ELSE <<pair>> \o ParseQuery(rest)

\* Path, query and fragment of what follows the host.
ParseTail(host, t, special) ==
    LET pEnd == IndexOfAny(t, {"?", "#"}, 1)
        path == SubSeq(t, 1, pEnd - 1)
        qEnd == IndexOfAny(t, {"#"}, pEnd)
        query == IF pEnd <= Len(t) /\ t[pEnd] = "?"
                 THEN SubSeq(t, pEnd + 1, qEnd - 1) ELSE <<>>
    IN  [ok |-> TRUE,
         hostname |-> host,
         pathname |-> IF special /\ path = <<>> THEN <<"/">> ELSE path,
         searchParams |-> ParseQuery(query)]

\* A special scheme (http, https): any run of slashes, then a host that must
\* not be empty and is lowercased.
ParseSpecial(rest) ==
    LET a == IF \E i \in 1..Len(rest) : rest[i] \notin {"/", "\\"}
             THEN CHOOSE i \in 1..Len(rest) :
                     rest[i] \notin {"/", "\\"}
                     /\ \A k \in 1..(i - 1) : rest[k] \in {"/", "\\"}
             ELSE Len(rest) + 1
        hEnd == IndexOfAny(rest, {"/", "\\", "?", "#"}, a)
        host == SubSeq(rest, a, hEnd - 1)
    IN  IF host = <<>> THEN ParseFailure
        ELSE ParseTail(ToLower(host), SubSeq(rest, hEnd, Len(rest)), TRUE)

\* Any other scheme: after "//" an opaque host (kept as written, may be
\* empty); without "//" no host and an opaque path.
ParseNonSpecial(rest) ==
    IF Len(rest) >= 2 /\ rest[1] = "/" /\ rest[2] = "/"
    THEN LET hEnd == IndexOfAny(rest, {"/", "?", "#"}, 3)
         IN  ParseTail(SubSeq(rest, 3, hEnd - 1),
                       SubSeq(rest, hEnd, Len(rest)), FALSE)
    ELSE ParseTail(<<>>, rest, FALSE)

\* new URL(s): the scheme is what precedes the first ':'; without a scheme
\* (and no base) the constructor throws a TypeError.
ParseURL(s) ==
    LET c == IndexOfAny(s, {":"}, 1)
        scheme == SubSeq(s, 1, c - 1)
        rest == SubSeq(s, c + 1, Len(s))
    IN  IF \/ c > Len(s)
           \/ scheme = <<>>
           \/ scheme[1] \notin AlphaChars
           \/ \E k \in 1..Len(scheme) : scheme[k] \notin SchemeChars
        THEN ParseFailure
        ELSE IF ToLower(scheme) \in SpecialSchemes
             THEN ParseSpecial(rest)
             ELSE ParseNonSpecial(rest)

\* searchParams.has(name) / searchParams.get(name): the first pair of that name.
SearchHas(params, name) == \E i \in 1..Len(params) : params[i].name = name

SearchGet(params, name) ==
    IF SearchHas(params, name)
    THEN params[CHOOSE i \in 1..Len(params) :
                   params[i].name = name
                   /\ \A k \in 1..(i - 1) : params[k].name # name].value
    ELSE Null

youtube_com == <<"y", "o", "u", "t", "u", "b", "e", ".", "c", "o", "m">>
youtu_be == <<"y", "o", "u", "t", "u", ".", "b", "e">>

\* The outcome of a call: not made yet, a value returned, an exception thrown.
NoResult == [pending |-> TRUE]
Returned(v) == [pending |-> FALSE, threw |-> FALSE, value |-> v]
Thrown == [pending |-> FALSE, threw |-> TRUE]

\* extractVideoId with the try/catch around new URL left out.
extractVideoIdNoCatch(url) ==
    LET urlObj == ParseURL(url)
    IN  IF ~urlObj.ok THEN Thrown
        ELSE IF Includes(urlObj.hostname, youtube_com)
                \/ Includes(urlObj.hostname, youtu_be)
        THEN IF SearchHas(urlObj.searchParams, <<"v">>)
             THEN Returned(SearchGet(urlObj.searchParams, <<"v">>))
             ELSE IF urlObj.hostname = youtu_be
                  THEN Returned(Substring(urlObj.pathname, 1))
                  ELSE Returned(url)
        ELSE Returned(url)

\* extractVideoId returning the first path segment only.
extractVideoIdFirstSegment(url) ==
    LET urlObj == ParseURL(url)
    IN  IF ~urlObj.ok THEN Returned(url)
        ELSE IF Includes(urlObj.hostname, youtube_com)
                \/ Includes(urlObj.hostname, youtu_be)
        THEN IF SearchHas(urlObj.searchParams, <<"v">>)
             THEN Returned(SearchGet(urlObj.searchParams, <<"v">>))
             ELSE IF urlObj.hostname = youtu_be
                  THEN LET p == Substring(urlObj.pathname, 1)
                       IN  Returned(SubSeq(p, 1, IndexOfAny(p, {"/"}, 1) - 1))
                  ELSE Returned(url)
        ELSE Returned(url)

extractVideoId(url) ==
    LET urlObj == ParseURL(url)
    IN  IF ~urlObj.ok THEN Returned(url)
        ELSE IF Includes(urlObj.hostname, youtube_com)
                \/ Includes(urlObj.hostname, youtu_be)
        THEN IF SearchHas(urlObj.searchParams, <<"v">>)
             THEN Returned(SearchGet(urlObj.searchParams, <<"v">>))
             ELSE IF urlObj.hostname = youtu_be
                  THEN Returned(Substring(urlObj.pathname, 1))
                  ELSE Returned(url)
        ELSE Returned(url)

-----------------------------------------------------------------------------
(* cleanFileName *)

\* The combining marks U+0300..U+036F that NFD produces for the letters below,
\* each one piece.
CombiningAcute == "U+0301"
CombiningTilde == "U+0303"
CombiningCedilla == "U+0327"
CombiningMarks == {CombiningAcute, CombiningTilde, CombiningCedilla}

\* String.prototype.normalize("NFD") on one character.
NFDChar(c) ==
    CASE c = "é" -> <<"e", CombiningAcute>>
      [] c = "É" -> <<"E", CombiningAcute>>
      [] c = "á" -> <<"a", CombiningAcute>>
      [] c = "Ó" -> <<"O", CombiningAcute>>
      [] c = "ã" -> <<"a", CombiningTilde>>
      [] c = "ç" -> <<"c", CombiningCedilla>>
      [] OTHER -> <<c>>

RECURSIVE NFD(_)
NFD(s) == IF s = <<>> THEN <<>> ELSE NFDChar(s[1]) \o NFD(Tail(s))

WordChars == Range(LowerLetters) \cup Range(UpperLetters) \cup Range(Digits) \cup {"_"}

\* cleanFileName with the final toLowerCase left out.
cleanFileNameNoLower(title) ==
    LET withoutDiacritics == SelectSeq(NFD(title), LAMBDA c : c \notin CombiningMarks)
    IN  [i \in 1..Len(withoutDiacritics) |->
           IF withoutDiacritics[i] \in WordChars
           THEN withoutDiacritics[i] ELSE "_"]

cleanFileName(title) ==
    LET withoutDiacritics == SelectSeq(NFD(title), LAMBDA c : c \notin CombiningMarks)
        replaced == [i \in 1..Len(withoutDiacritics) |->
                       IF withoutDiacritics[i] \in WordChars
                       THEN withoutDiacritics[i] ELSE "_"]
    IN  ToLower(replaced)

-----------------------------------------------------------------------------
(* The remote API: what it may answer *)

T_text1 == <<"t", "e", "x", "t", "1">>
T_replytext == <<"r", "e", "p", "l", "y", "t", "e", "x", "t">>
T_text2 == <<"t", "e", "x", "t", "2">>
T_markup == <<"h", "i", " ", "<", "b", ">", "y", "o", "u", "<", "/", "b", ">", " ", "<", "3">>
T_TestVideo == <<"T", "e", "s", "t", " ", "V", "i", "d", "e", "o">>
W_XYZ == <<"X", "Y", "Z">>
K_key == <<"K">>

\* Entries of a commentThreads response.  Of the snippet fields only the two
\* the documents use are carried; the others are copied the same way.
\* The reply carries a replies member of its own, which the code never reads.
RawReply1 == [id |-> "r1",
              snippet |-> [authorDisplayName |-> <<"ReplyAuthor">>,
                           textDisplay |-> T_replytext],
              replies |-> [comments |-> <<[id |-> "r2"]>>]]
RawItem1 == [id |-> "c1",
             snippet |-> [topLevelComment |-> [snippet |->
                            [authorDisplayName |-> <<"Author1">>,
                             textDisplay |-> T_text1]]],
             replies |-> [comments |-> <<RawReply1>>]]
\* no replies member at all
RawItem2 == [id |-> "c2",
             snippet |-> [topLevelComment |-> [snippet |->
                            [authorDisplayName |-> <<"Author2">>,
                             textDisplay |-> T_text2]]]]
\* a replies member with an empty collection, and markup in the text
RawItem3 == [id |-> "c3",
             snippet |-> [topLevelComment |-> [snippet |->
                            [authorDisplayName |-> <<"Author3">>,
                             textDisplay |-> T_markup]]],
             replies |-> [comments |-> <<>>]]

RawPages == {<<RawItem1, RawItem2>>, <<RawItem3>>}
\* Continuation tokens are opaque, non-empty cursors; the remote hands out a
\* fresh one with each page that has a successor.
PageTokenNames == <<"T1", "T2", "T3", "T4", "T5">>
PageTokens == {PageTokenNames[i] : i \in 1..Len(PageTokenNames)}

Snippets == {[title |-> T_TestVideo, description |-> <<"Desc">>]}

NetworkErrors == {"Network Error"}

FailedResponse(m) == [fail |-> TRUE, message |-> m]

\* Answers to GET /videos: a transport or API failure, no item, one item.
VideoResponses ==
    {FailedResponse(m) : m \in NetworkErrors}
    \cup {[fail |-> FALSE, data |-> [items |-> <<>>]]}
    \cup {[fail |-> FALSE, data |-> [items |-> <<[snippet |-> sn]>>]] : sn \in Snippets}

\* Answers to GET /commentThreads.  The remote hands out a continuation token
\* only while it has served fewer than MaxPages - 1 pages.
CommentResponses(served) ==
    {FailedResponse(m) : m \in NetworkErrors}
    \cup {[fail |-> FALSE, data |-> [items |-> p, nextPageToken |-> t]] :
            p \in RawPages,
            t \in {Undefined} \cup (IF served + 1 < MaxPages
                                     THEN {PageTokenNames[served + 1]} ELSE {})}

-----------------------------------------------------------------------------
(* The service functions (src/unnamed/part_002) *)

MissingKeyMessage == "YouTube API Key is not provided. Please enter it in the field above."
VideoNotFoundMessage == "Video not found or invalid video ID."

Throw(m) == [throws |-> TRUE, message |-> m]
Return(v) == [throws |-> FALSE, value |-> v]
Issue(r) == [throws |-> FALSE, request |-> r]

\* getComments up to its await: the credential check, then axios.get.
getCommentsCallNoKeyCheck(apiKey, vid, pageToken) ==
    Issue([url |-> "commentThreads", key |-> apiKey, videoId |-> vid,
           maxResults |-> 100, pageToken |-> pageToken])

\* getComments sending no pageToken.
getCommentsCallNoToken(apiKey, vid, pageToken) ==
    IF apiKey = <<>> THEN Throw(MissingKeyMessage)
    ELSE Issue([url |-> "commentThreads", key |-> apiKey, videoId |-> vid,
                maxResults |-> 100, pageToken |-> Undefined])

getCommentsCall(apiKey, vid, pageToken) ==
    IF apiKey = <<>> THEN Throw(MissingKeyMessage)
    ELSE Issue([url |-> "commentThreads", key |-> apiKey, videoId |-> vid,
                maxResults |-> 100, pageToken |-> pageToken])

MapReply(reply) ==
    [id |-> reply.id,
     authorDisplayName |-> reply.snippet.authorDisplayName,
     textDisplay |-> reply.snippet.textDisplay]

\* MapItem attaching the replies list whenever the entry has a replies member.
MapItemAnyReplies(item) ==
    LET top == item.snippet.topLevelComment.snippet
    IN  IF "replies" \in DOMAIN item
        THEN [id |-> item.id,
              authorDisplayName |-> top.authorDisplayName,
              textDisplay |-> top.textDisplay,
              replies |-> [i \in 1..Len(item.replies.comments) |->
                             MapReply(item.replies.comments[i])]]
        ELSE [id |-> item.id,
              authorDisplayName |-> top.authorDisplayName,
              textDisplay |-> top.textDisplay]

MapItem(item) ==
    LET top == item.snippet.topLevelComment.snippet
        comment == [id |-> item.id,
                    authorDisplayName |-> top.authorDisplayName,
                    textDisplay |-> top.textDisplay]
    IN  IF "replies" \in DOMAIN item /\ Len(item.replies.comments) > 0
        THEN [id |-> comment.id,
              authorDisplayName |-> comment.authorDisplayName,
              textDisplay |-> comment.textDisplay,
              replies |-> [i \in 1..Len(item.replies.comments) |->
                             MapReply(item.replies.comments[i])]]
        ELSE comment

\* getComments swallowing a failed request as an empty last page.
getCommentsResultSwallow(response) ==
    IF response.fail
    THEN Return([comments |-> <<>>, nextPageToken |-> Undefined])
    ELSE Return([comments |-> [i \in 1..Len(response.data.items) |->
                                 MapItem(response.data.items[i])],
                 nextPageToken |-> response.data.nextPageToken])

\* getComments after its await: map the items, or rethrow the failure.
getCommentsResult(response) ==
    IF response.fail THEN Throw(response.message)
    ELSE Return([comments |-> [i \in 1..Len(response.data.items) |->
                                 MapItem(response.data.items[i])],
                 nextPageToken |-> response.data.nextPageToken])

WatchUrl(vid) == <<"https://www.youtube.com/watch?v=">> \o vid

getVideoDetailsCall(apiKey, vid) ==
    IF apiKey = <<>> THEN Throw(MissingKeyMessage)
    ELSE Issue([url |-> "videos", key |-> apiKey, id |-> vid])

\* getVideoDetails falling back to placeholder details when the request fails
\* or matches nothing.
getVideoDetailsResultFallback(vid, response) ==
    IF response.fail \/ Len(response.data.items) = 0
    THEN Return([title |-> <<"conteúdo">>, url |-> WatchUrl(vid), description |-> <<>>])
    ELSE Return([title |-> response.data.items[1].snippet.title,
                 url |-> WatchUrl(vid),
                 description |-> response.data.items[1].snippet.description])

getVideoDetailsResult(vid, response) ==
    IF response.fail THEN Throw(response.message)
    ELSE IF Len(response.data.items) = 0 THEN Throw(VideoNotFoundMessage)
    ELSE Return([title |-> response.data.items[1].snippet.title,
                 url |-> WatchUrl(vid),
                 description |-> response.data.items[1].snippet.description])

\* getTranscription: the placeholder text (src/unnamed/part_003).
getTranscription(vid) ==
    <<"Esta é uma transcrição de exemplo para o vídeo ">> \o vid
    \o <<".\n  \n  [00:00:05] Olá a todos! Bem-vindos ao meu canal.">>
    \o <<"\n  [00:00:10] Hoje vamos falar sobre um tópico muito interessante.">>
    \o <<"\n  [00:00:15] Espero que gostem do conteúdo.">>
    \o <<"\n  [00:00:20] Não se esqueçam de deixar um like e se inscrever!">>

-----------------------------------------------------------------------------
(* The component (src/src/components/YouTubeCommentScraper.tsx) *)

HeaderOf(title, description, url) ==
    title \o <<"\n\n">> \o description \o <<"\n\n">>
    \o <<"Conteúdo extraído de: ">> \o url \o <<"\n\n">>
    \o <<"-------------------------------------------------------\n\n">>

ReplyLine(reply) ==
    <<"  ">> \o reply.authorDisplayName \o <<": ">>
    \o StripTags(reply.textDisplay) \o <<"\n">>

RECURSIVE ReplyLines(_)
ReplyLines(replies) ==
    IF replies = <<>> THEN <<>>
    ELSE ReplyLine(replies[1]) \o ReplyLines(Tail(replies))

\* One top-level comment with its replies left out.
CommentLinesNoReplies(comment) ==
    comment.authorDisplayName \o <<": ">> \o StripTags(comment.textDisplay) \o <<"\n">>

\* One top-level comment: its line, then its replies indented by two spaces.
CommentLines(comment) ==
    comment.authorDisplayName \o <<": ">> \o StripTags(comment.textDisplay) \o <<"\n">>
    \o (IF "replies" \in DOMAIN comment /\ Len(comment.replies) > 0
        THEN ReplyLines(comment.replies) ELSE <<>>)

RECURSIVE CommentsBody(_)
CommentsBody(data) ==
    IF data = <<>> THEN <<>>
    ELSE CommentLines(data[1]) \o CommentsBody(Tail(data))

\* generateFileContent; data is the comment list or the transcription text.
generateFileContent(title, description, url, type, data) ==
    Flat(HeaderOf(title, description, url)
         \o (IF type = "comments" THEN CommentsBody(data) ELSE data))

\* The comments branch taken in every mode.
IncludesCommentsAlways(mode) == TRUE

IncludesComments(mode) == mode \in {"comments", "both"}
IncludesTranscription(mode) == mode \in {"transcription", "both"}

\* while (currentPageToken): undefined and the empty string end the loop.
Truthy(token) == token # Undefined /\ token # ""

\* allComments = newComments: the earlier pages dropped.
AccumulateLastPageOnly(allComments, newComments) == newComments

\* allComments = [...allComments, ...newComments]
Accumulate(allComments, newComments) == allComments \o newComments

\* The trigger (and every input) is disabled while loading.
ButtonAlwaysEnabled == TRUE

ButtonEnabled == ~loading

Toast(title, description) == [title |-> title, description |-> description]

ErrorDescription(message) ==
    IF message # "" THEN message ELSE "Falha ao buscar dados do vídeo."

IdleOp ==
    [pc |-> "idle", outcome |-> "none",
     apiKey |-> <<>>, videoId |-> <<>>, scrapeMode |-> "comments",
     videoTitle |-> <<"conteúdo">>, videoUrl |-> <<>>, videoDescription |-> <<>>,
     allComments |-> <<>>, currentPageToken |-> Undefined,
     filesToDownload |-> <<>>,
     detailsRequests |-> 0, detailsFailed |-> FALSE,
     commentRequests |-> <<>>, pages |-> <<>>, commentsFailed |-> FALSE,
     transcriptionCalls |-> 0]

\* The catch block without the finally block: loading is left as it is.
CatchWithoutFinally(o, message) ==
    /\ toasts' = Append(toasts, Toast("Erro", ErrorDescription(message)))
    /\ downloadFiles' = Null
    /\ UNCHANGED loading
    /\ op' = [o EXCEPT !.pc = "idle", !.outcome = "error"]

\* Lines 143-152: the catch block and the finally block.
Catch(o, message) ==
    /\ toasts' = Append(toasts, Toast("Erro", ErrorDescription(message)))
    /\ downloadFiles' = Null
    /\ loading' = FALSE
    /\ op' = [o EXCEPT !.pc = "idle", !.outcome = "error"]

CommentsFile(o) ==
    [filename |-> Flat(<<"Comentários_">> \o cleanFileName(o.videoTitle) \o <<".txt">>),
     content |-> generateFileContent(o.videoTitle, o.videoDescription, o.videoUrl,
                                     "comments", o.allComments)]

TranscriptionFile(o) ==
    [filename |-> Flat(<<"Transcrição_">> \o cleanFileName(o.videoTitle) \o <<".txt">>),
     content |-> generateFileContent(o.videoTitle, o.videoDescription, o.videoUrl,
                                     "transcription", getTranscription(o.videoId))]

\* Lines 113-141 and the finally block, from the end of the pagination loop
\* (or from line 124 when the mode has no comments).  getTranscription issues
\* no request and its await resumes before any other event.
Finish(o) ==
    LET withComments ==
            IF IncludesComments(o.scrapeMode) THEN <<CommentsFile(o)>> ELSE <<>>
        withTranscription ==
            IF IncludesTranscription(o.scrapeMode) THEN <<TranscriptionFile(o)>> ELSE <<>>
        files == withComments \o withTranscription
        notes ==
            (IF IncludesComments(o.scrapeMode)
             THEN <<Toast("Sucesso", <<"Foram extraídos ", Len(o.allComments),
                                       " comentários.">>)>> ELSE <<>>)
            \o (IF IncludesTranscription(o.scrapeMode)
                THEN <<Toast("Sucesso", "Transcrição do vídeo preparada.")>> ELSE <<>>)
            \o <<Toast("Pronto para Download", <<"Foram preparados ", Len(files),
                                                 " arquivo(s) para download.">>)>>
    IN  /\ toasts' = toasts \o notes
        /\ downloadFiles' = files
        /\ loading' = FALSE
        /\ op' = [o EXCEPT !.pc = "idle", !.outcome = "ok",
                           !.filesToDownload = files,
                           !.transcriptionCalls =
                               IF IncludesTranscription(o.scrapeMode) THEN 1 ELSE 0]

\* The answered request leaves the outstanding ones.
Remove(q, i) == SubSeq(q, 1, i - 1) \o SubSeq(q, i + 1, Len(q))

KeyInputs == {<<>>, K_key}

\* What the user may type into the identifier field: nothing, a bare
\* identifier, a short link, a short link with an empty path, a watch URL
\* whose v parameter is empty.
VideoIdInputs ==
    {<<>>, W_XYZ,
     S_https \o <<":", "/", "/">> \o youtu_be \o <<"/">> \o W_XYZ,
     S_https \o <<":", "/", "/">> \o youtu_be \o <<"/">>,
     S_https \o <<":", "/", "/">> \o youtube_com \o <<"/", "w", "?", "v", "=">>}

ScrapeModes == {"comments", "transcription", "both"}

\* onChange of the credential field (line 249).
setYoutubeApiKey ==
    /\ ButtonEnabled
    /\ \E v \in KeyInputs : youtubeApiKey' = v
    /\ UNCHANGED <<videoId, inputValue, loading, scrapeMode, downloadFiles, toasts, op, net, opCount>>

\* setVideoId(extractedId): the extraction stored as it is.
StoredVideoIdNoFallback(value) ==
    LET extractedId == extractVideoId(value).value
    IN  IF extractedId = Null THEN <<>> ELSE extractedId

\* extractedId || value: an empty or null extraction gives way to the raw input.
StoredVideoId(value) ==
    LET extractedId == extractVideoId(value).value
    IN  IF extractedId # <<>> /\ extractedId # Null THEN extractedId ELSE value

\* handleVideoIdChange (lines 190-194).
handleVideoIdChange ==
    /\ ButtonEnabled
    /\ \E value \in VideoIdInputs :
          /\ inputValue' = value
          /\ videoId' = StoredVideoId(value)
    /\ UNCHANGED <<youtubeApiKey, loading, scrapeMode, downloadFiles, toasts, op, net, opCount>>

\* The three mode buttons (lines 211, 224, 237).
setScrapeMode ==
    /\ ButtonEnabled
    /\ \E m \in ScrapeModes : scrapeMode' = m
    /\ UNCHANGED <<youtubeApiKey, videoId, inputValue, loading, downloadFiles, toasts, op, net, opCount>>

\* The validation of lines 73 and 82 never firing.
FalsyNever(value) == FALSE

\* !youtubeApiKey, !videoId: the empty string is the one falsy string.
Falsy(value) == value = <<>>

\* Line 92 left out: the batch of the previous operation stays.
ResetDownloadFilesSkipped == UNCHANGED downloadFiles

\* Line 92: setDownloadFiles(null) at the start of a validated operation.
ResetDownloadFiles == downloadFiles' = Null

\* fetchAndPrepareDownloads from the click up to its first await (lines 72-99).
fetchAndPrepareDownloads ==
    /\ ButtonEnabled
    /\ opCount < MaxOps
    /\ UNCHANGED <<youtubeApiKey, videoId, inputValue, scrapeMode>>
    /\ IF Falsy(youtubeApiKey)
       THEN /\ toasts' = <<Toast("Erro", "Por favor, insira sua chave de API do YouTube.")>>
            /\ UNCHANGED <<loading, downloadFiles, op, net, opCount>>
       ELSE IF Falsy(videoId)
       THEN /\ toasts' = <<Toast("Erro", "Por favor, insira um ID ou URL de vídeo do YouTube.")>>
            /\ UNCHANGED <<loading, downloadFiles, op, net, opCount>>
       ELSE LET o == [IdleOp EXCEPT !.outcome = "running",
                                    !.apiKey = youtubeApiKey,
                                    !.videoId = videoId,
                                    !.scrapeMode = scrapeMode,
                                    !.videoUrl = WatchUrl(videoId)]
                call == getVideoDetailsCall(youtubeApiKey, videoId)
            IN  /\ opCount' = opCount + 1
                /\ IF call.throws
                   THEN /\ toasts' = <<Toast("Erro", ErrorDescription(call.message))>>
                        /\ downloadFiles' = Null
                        /\ loading' = FALSE
                        /\ op' = [o EXCEPT !.pc = "idle", !.outcome = "error"]
                        /\ UNCHANGED net
                   ELSE /\ toasts' = <<>>
                        /\ loading' = TRUE
                        /\ ResetDownloadFiles
                        /\ net' = Append(net, call.request)
                        /\ op' = [o EXCEPT !.pc = "awaitDetails", !.detailsRequests = 1]

\* The answer to GET /videos, request i of net, is response: lines 99-108
\* (or 99-152).
DetailsAnswer(i, response) ==
    LET details == getVideoDetailsResult(op.videoId, response)
        failed == response.fail \/ Len(response.data.items) = 0
        o0 == [op EXCEPT !.detailsFailed = failed]
    IN  IF details.throws
        THEN Catch(o0, details.message) /\ net' = Remove(net, i)
        ELSE LET o1 == [o0 EXCEPT !.videoTitle = details.value.title,
                                  !.videoUrl = details.value.url,
                                  !.videoDescription = details.value.description]
             IN  IF IncludesComments(o1.scrapeMode)
                 THEN LET call == getCommentsCall(o1.apiKey, o1.videoId, Undefined)
                      IN  IF call.throws
                          THEN Catch(o1, call.message) /\ net' = Remove(net, i)
                          ELSE /\ net' = Append(Remove(net, i), call.request)
                               /\ op' = [o1 EXCEPT
                                      !.pc = "awaitComments",
                                      !.commentRequests =
                                          Append(@, call.request.pageToken)]
                               /\ UNCHANGED <<toasts, downloadFiles, loading>>
                 ELSE Finish(o1) /\ net' = Remove(net, i)

\* The promise of axios.get for /videos settles: rejected, or resolved.
DetailsResponse ==
    /\ op.pc = "awaitDetails"
    /\ \E i \in 1..Len(net) :
          /\ net[i].url = "videos"
          /\ \/ \E m \in NetworkErrors : DetailsAnswer(i, FailedResponse(m))
             \/ \E response \in VideoResponses :
                   ~response.fail /\ DetailsAnswer(i, response)
    /\ UNCHANGED <<youtubeApiKey, videoId, inputValue, scrapeMode, opCount>>

\* The answer to GET /commentThreads, request i of net, is response: lines
\* 108-111, then the next turn of the loop or lines 113-152.
CommentsAnswer(i, response) ==
    LET result == getCommentsResult(response)
        o0 == IF response.fail
              THEN [op EXCEPT !.commentsFailed = TRUE]
              ELSE [op EXCEPT !.pages = Append(@, response.data)]
    IN  IF result.throws
        THEN Catch(o0, result.message) /\ net' = Remove(net, i)
        ELSE LET o1 == [o0 EXCEPT
                          !.allComments = Accumulate(@, result.value.comments),
                          !.currentPageToken = result.value.nextPageToken]
             IN  IF Truthy(o1.currentPageToken)
                 THEN LET call == getCommentsCall(o1.apiKey, o1.videoId,
                                                  o1.currentPageToken)
                      IN  IF call.throws
                          THEN Catch(o1, call.message) /\ net' = Remove(net, i)
                          ELSE /\ net' = Append(Remove(net, i), call.request)
                               /\ op' = [o1 EXCEPT
                                      !.commentRequests =
                                          Append(@, call.request.pageToken)]
                               /\ UNCHANGED <<toasts, downloadFiles, loading>>
                 ELSE Finish(o1) /\ net' = Remove(net, i)

\* The promise of axios.get for /commentThreads settles: rejected, or resolved.
CommentsResponse ==
    /\ op.pc = "awaitComments"
    /\ \E i \in 1..Len(net) :
          /\ net[i].url = "commentThreads"
          /\ \/ \E m \in NetworkErrors : CommentsAnswer(i, FailedResponse(m))
             \/ \E response \in CommentResponses(Len(op.pages)) :
                   ~response.fail /\ CommentsAnswer(i, response)
    /\ UNCHANGED <<youtubeApiKey, videoId, inputValue, scrapeMode, opCount>>

\* handleDownload (lines 155-172); its button is rendered only for a
\* non-empty batch and disabled while loading.
handleDownload ==
    /\ ButtonEnabled
    /\ downloadFiles # Null
    /\ Len(downloadFiles) > 0
    /\ toasts' = [i \in 1..Len(downloadFiles) |->
                    Toast("Download Concluído",
                          <<"\"", downloadFiles[i].filename, "\" foi baixado.">>)]
    /\ UNCHANGED <<youtubeApiKey, videoId, inputValue, loading, scrapeMode, downloadFiles,
                 op, net, opCount>>

SvcIdle == [pc |-> "unused"]
UrlIdle == <<>>

MainInit ==
    /\ youtubeApiKey = <<>>
    /\ videoId = <<>>
    /\ inputValue = <<>>
    /\ loading = FALSE
    /\ scrapeMode = "comments"
    /\ downloadFiles = Null
    /\ toasts = <<>>
    /\ op = IdleOp
    /\ net = <<>>
    /\ opCount = 0

Init ==
    /\ MainInit
    /\ svc = SvcIdle
    /\ urlParts = UrlIdle /\ urlIn = <<>> /\ urlOut = NoResult
    /\ stripIn = <<>> /\ stripOut = NotCalled
    /\ cleanIn = <<>> /\ cleanOut = <<>>

Next ==
    \/ setYoutubeApiKey /\ UNCHANGED <<svcVars, urlVars, stripVars, cleanVars>>
    \/ handleVideoIdChange /\ UNCHANGED <<svcVars, urlVars, stripVars, cleanVars>>
    \/ setScrapeMode /\ UNCHANGED <<svcVars, urlVars, stripVars, cleanVars>>
    \/ fetchAndPrepareDownloads /\ UNCHANGED <<svcVars, urlVars, stripVars, cleanVars>>
    \/ DetailsResponse /\ UNCHANGED <<svcVars, urlVars, stripVars, cleanVars>>
    \/ CommentsResponse /\ UNCHANGED <<svcVars, urlVars, stripVars, cleanVars>>
    \/ handleDownload /\ UNCHANGED <<svcVars, urlVars, stripVars, cleanVars>>

Spec == Init /\ [][Next]_vars

\* The component with a remote that answers every request: an awaited
\* response does arrive.  The user is free to stop acting at any time.
SpecAnswered ==
    /\ Init
    /\ [][Next]_vars
    /\ WF_vars(DetailsResponse /\ UNCHANGED <<svcVars, urlVars, stripVars, cleanVars>>)
    /\ WF_vars(CommentsResponse /\ UNCHANGED <<svcVars, urlVars, stripVars, cleanVars>>)

-----------------------------------------------------------------------------
(* The service functions called directly, with any credential *)

W_ABC == <<"A", "B", "C">>
ServiceKeys == {<<>>, K_key, <<"K", "2">>}
ServiceIds == {<<>>, W_XYZ, W_ABC}

ServiceCalls ==
    {[fn |-> "getComments", apiKey |-> k, videoId |-> v, pageToken |-> t,
      pc |-> "ready", response |-> NotCalled, result |-> NotCalled, issued |-> 0] :
        k \in ServiceKeys, v \in ServiceIds, t \in {Undefined, "T1", "T2"}}
    \cup
    {[fn |-> "getVideoDetails", apiKey |-> k, videoId |-> v, pageToken |-> Undefined,
      pc |-> "ready", response |-> NotCalled, result |-> NotCalled, issued |-> 0] :
        k \in ServiceKeys, v \in ServiceIds}

\* A call runs to its throw or to its await.
ServiceBegin(call) ==
    IF call.throws
    THEN /\ svc' = [svc EXCEPT !.pc = "done", !.result = call]
         /\ UNCHANGED net
    ELSE /\ svc' = [svc EXCEPT !.pc = "awaiting", !.issued = @ + 1]
         /\ net' = Append(net, call.request)

getCommentsBegin ==
    /\ svc.pc = "ready" /\ svc.fn = "getComments"
    /\ ServiceBegin(getCommentsCall(svc.apiKey, svc.videoId, svc.pageToken))

getVideoDetailsBegin ==
    /\ svc.pc = "ready" /\ svc.fn = "getVideoDetails"
    /\ ServiceBegin(getVideoDetailsCall(svc.apiKey, svc.videoId))

getCommentsEnd ==
    /\ svc.pc = "awaiting" /\ svc.fn = "getComments"
    /\ \E response \in CommentResponses(0) :
          svc' = [svc EXCEPT !.pc = "done", !.response = response,
                             !.result = getCommentsResult(response)]
    /\ net' = <<>>

getVideoDetailsEnd ==
    /\ svc.pc = "awaiting" /\ svc.fn = "getVideoDetails"
    /\ \E response \in VideoResponses :
          svc' = [svc EXCEPT !.pc = "done", !.response = response,
                             !.result = getVideoDetailsResult(svc.videoId, response)]
    /\ net' = <<>>

ComponentIdle ==
    UNCHANGED <<youtubeApiKey, videoId, inputValue, loading, scrapeMode,
                downloadFiles, toasts, op, opCount>>

ServiceInit ==
    /\ MainInit
    /\ svc \in ServiceCalls
    /\ urlParts = UrlIdle /\ urlIn = <<>> /\ urlOut = NoResult
    /\ stripIn = <<>> /\ stripOut = NotCalled
    /\ cleanIn = <<>> /\ cleanOut = <<>>

ServiceNext ==
    \/ getCommentsBegin /\ ComponentIdle /\ UNCHANGED <<urlVars, stripVars, cleanVars>>
    \/ getVideoDetailsBegin /\ ComponentIdle /\ UNCHANGED <<urlVars, stripVars, cleanVars>>
    \/ getCommentsEnd /\ ComponentIdle /\ UNCHANGED <<urlVars, stripVars, cleanVars>>
    \/ getVideoDetailsEnd /\ ComponentIdle /\ UNCHANGED <<urlVars, stripVars, cleanVars>>

SpecService == ServiceInit /\ [][ServiceNext]_vars

-----------------------------------------------------------------------------
(* extractVideoId on inputs built from components *)

S_HTTPS == <<"H", "T", "T", "P", "S">>
S_foo == <<"f", "o", "o">>
H_www_youtube_com == <<"w", "w", "w", ".", "y", "o", "u", "t", "u", "b", "e", ".", "c", "o", "m">>
H_YOUTU_BE == <<"Y", "O", "U", "T", "U", ".", "B", "E">>
H_www_youtu_be == <<"w", "w", "w", ".", "y", "o", "u", "t", "u", ".", "b", "e">>
H_example_com == <<"e", "x", "a", "m", "p", "l", "e", ".", "c", "o", "m">>
H_notyoutube_com == <<"n", "o", "t", "y", "o", "u", "t", "u", "b", "e", ".", "c", "o", "m">>
W_def == <<"d", "e", "f">>
W_watch == <<"w", "a", "t", "c", "h">>
W_A_B == <<"A", " ", "B">>

\* <<>> stands for an input without "scheme://".
UrlSchemes == {<<>>, S_https, S_http, S_HTTPS, S_foo}
UrlHosts == {<<>>, youtu_be, H_www_youtube_com, H_YOUTU_BE, H_www_youtu_be,
             H_example_com, H_notyoutube_com, W_ABC}
\* A path is its segments, each written after a "/".
UrlPaths == {<<>>, <<W_ABC>>, <<W_ABC, W_def>>, <<W_ABC, <<>>>>, <<W_watch>>}
\* A query is its name/value pairs.
UrlQueries ==
    {<<>>,
     <<[name |-> <<"v">>, value |-> W_ABC]>>,
     <<[name |-> <<"v">>, value |-> <<>>]>>,
     <<[name |-> <<"v">>, value |-> W_A_B]>>,
     <<[name |-> <<"t">>, value |-> W_def]>>,
     <<[name |-> <<"t">>, value |-> W_def], [name |-> <<"v">>, value |-> W_ABC]>>,
     <<[name |-> <<"v">>, value |-> W_ABC], [name |-> <<"v">>, value |-> W_def]>>}
UrlFragments == {<<>>, <<"#">> \o W_def}

\* An http(s) URL without a host takes its host from the path, so those
\* inputs are enumerated with an empty path only.
UrlInputs ==
    {p \in [scheme : UrlSchemes, host : UrlHosts, path : UrlPaths,
            query : UrlQueries, fragment : UrlFragments] :
        (ToLower(p.scheme) \in SpecialSchemes /\ p.host = <<>>) => p.path = <<>>}

FormEncode(s) == [i \in 1..Len(s) |-> IF s[i] = " " THEN "+" ELSE s[i]]

RECURSIVE RenderPath(_)
RenderPath(segments) ==
    IF segments = <<>> THEN <<>>
    ELSE <<"/">> \o segments[1] \o RenderPath(Tail(segments))

RECURSIVE RenderPairs(_)
RenderPairs(pairs) ==
    IF pairs = <<>> THEN <<>>
    ELSE pairs[1].name \o <<"=">> \o FormEncode(pairs[1].value)
         \o (IF Len(pairs) > 1 THEN <<"&">> ELSE <<>>) \o RenderPairs(Tail(pairs))

RenderUrl(p) ==
    (IF p.scheme = <<>> THEN <<>> ELSE p.scheme \o <<":", "/", "/">>)
    \o p.host \o RenderPath(p.path)
    \o (IF p.query = <<>> THEN <<>> ELSE <<"?">> \o RenderPairs(p.query))
    \o p.fragment

extractVideoIdStep ==
    /\ urlOut = NoResult
    /\ urlOut' = extractVideoId(urlIn)
    /\ UNCHANGED <<urlParts, urlIn>>

UrlInit ==
    /\ MainInit
    /\ svc = SvcIdle
    /\ urlParts \in UrlInputs /\ urlIn = RenderUrl(urlParts) /\ urlOut = NoResult
    /\ stripIn = <<>> /\ stripOut = NotCalled
    /\ cleanIn = <<>> /\ cleanOut = <<>>

UrlNext == extractVideoIdStep /\ UNCHANGED <<mainVars, svcVars, stripVars, cleanVars>>

SpecUrl == UrlInit /\ [][UrlNext]_vars

-----------------------------------------------------------------------------
(* Tag stripping on every short text *)

StripAlphabet == {"<", ">", "a", "\n"}

T_Hello == <<"H", "e", "l", "l", "o", " ", "<", "b", ">", "w", "o", "r", "l", "d", "<", "/", "b", ">", "!">>

StripInputs == UNION {[1..n -> StripAlphabet] : n \in 0..MaxLen} \cup {T_Hello, T_markup}

StripStep ==
    /\ stripOut = NotCalled
    /\ stripOut' = StripTags(stripIn)
    /\ UNCHANGED stripIn

StripInit ==
    /\ MainInit
    /\ svc = SvcIdle
    /\ urlParts = UrlIdle /\ urlIn = <<>> /\ urlOut = NoResult
    /\ stripIn \in StripInputs /\ stripOut = NotCalled
    /\ cleanIn = <<>> /\ cleanOut = <<>>

StripNext == StripStep /\ UNCHANGED <<mainVars, svcVars, urlVars, cleanVars>>

SpecStrip == StripInit /\ [][StripNext]_vars

-----------------------------------------------------------------------------
(* cleanFileName on every short title *)

\* The two UTF-16 code units of a character outside the basic plane; the
\* regular expressions have no u flag and see them one by one.
HighSurrogate == "U+D83D"
LowSurrogate == "U+DE00"

\* Letters of both cases, a digit, the underscore, a blank, precomposed
\* accented letters, a combining mark on its own, a CJK character, surrogates.
TitleAlphabet == {"a", "Z", "7", "_", " ", "é", "Ó", CombiningTilde, "日",
                  HighSurrogate, LowSurrogate}

TitleInputs == UNION {[1..n -> TitleAlphabet] : n \in 0..MaxTitleLen} \cup {T_TestVideo}

\* cleanFileName applied to the title, then to its own result.
cleanFileNameStep ==
    /\ Len(cleanOut) < 2
    /\ cleanOut' = Append(cleanOut,
                          cleanFileName(IF cleanOut = <<>> THEN cleanIn
                                        ELSE cleanOut[Len(cleanOut)]))
    /\ UNCHANGED cleanIn

CleanInit ==
    /\ MainInit
    /\ svc = SvcIdle
    /\ urlParts = UrlIdle /\ urlIn = <<>> /\ urlOut = NoResult
    /\ stripIn = <<>> /\ stripOut = NotCalled
    /\ cleanIn \in TitleInputs /\ cleanOut = <<>>

CleanNext == cleanFileNameStep /\ UNCHANGED <<mainVars, svcVars, urlVars, stripVars>>

SpecClean == CleanInit /\ [][CleanNext]_vars

-----------------------------------------------------------------------------
(* Properties *)

RECURSIVE PagesComments(_)
PagesComments(pages) ==
    IF pages = <<>> THEN <<>>
    ELSE [i \in 1..Len(pages[1].items) |-> MapItem(pages[1].items[i])]
         \o PagesComments(Tail(pages))

RECURSIVE PagesSize(_)
PagesSize(pages) ==
    IF pages = <<>> THEN 0 ELSE Len(pages[1].items) + PagesSize(Tail(pages))

\* The flow has received N >= 1 pages, the first N-1 with a token, the last without.
PagesExhausted ==
    /\ Len(op.pages) >= 1
    /\ op.pages[Len(op.pages)].nextPageToken = Undefined
    /\ \A k \in 1..(Len(op.pages) - 1) : op.pages[k].nextPageToken # Undefined

\* C1: when the remote has served N >= 1 pages, the first N-1 with a
\* continuation token and the N-th without, exactly N getComments calls were
\* issued and the accumulated list is the concatenation of the N pages'
\* comments in arrival order, its length the sum of the page sizes.
C1_PaginationCollectsAllPages ==
    PagesExhausted =>
        /\ Len(op.commentRequests) = Len(op.pages)
        /\ op.allComments = PagesComments(op.pages)
        /\ Len(op.allComments) = PagesSize(op.pages)

C1_Witness ==
    /\ op.outcome = "ok"
    /\ PagesExhausted
    /\ Len(op.pages) >= 2
    /\ Len(op.pages[1].items) # Len(op.pages[2].items)

\* C2: once a getComments call of an operation has failed, the operation has
\* ended in error with no documents (downloadFiles is null, nothing built),
\* the failed page was requested once only (one request more than pages
\* received) and no request is outstanding.
C2_FailedPageEndsOperation ==
    op.commentsFailed =>
        /\ op.outcome = "error"
        /\ op.pc = "idle"
        /\ ~loading
        /\ downloadFiles = Null
        /\ op.filesToDownload = <<>>
        /\ net = <<>>
        /\ Len(op.commentRequests) = Len(op.pages) + 1

C2_Witness ==
    /\ op.commentsFailed
    /\ Len(op.pages) >= 1
    /\ Len(op.allComments) >= 1

\* C3: with an empty credential getVideoDetails and getComments end by
\* throwing the missing-credential error, and the call issues no request,
\* whatever the identifier and the continuation token.
C3_EmptyCredentialFailsWithoutRequest ==
    (svc.pc # "unused" /\ svc.apiKey = <<>>) =>
        /\ svc.issued = 0
        /\ net = <<>>
        /\ svc.pc # "awaiting"
        /\ svc.pc = "done" =>
              (svc.result.throws /\ svc.result.message = MissingKeyMessage)

C3_Witness ==
    /\ svc.pc = "done"
    /\ svc.apiKey = <<>>
    /\ svc.fn = "getComments"
    /\ svc.pageToken \in PageTokens
    /\ svc.videoId # <<>>

OutstandingVideos == {i \in 1..Len(net) : net[i].url = "videos"}

\* C4: every operation issues the video-details request exactly once and
\* before any comments-page request or transcription call; when the details
\* request fails or matches no item the operation has ended in error with no
\* documents, no comments-page request and no transcription call, in every mode.
C4_DetailsOnceAndFirst ==
    /\ op.outcome # "none" => op.detailsRequests = 1
    /\ Cardinality(OutstandingVideos) <= 1
    /\ (Len(op.commentRequests) > 0 \/ op.transcriptionCalls > 0) =>
          (op.detailsRequests = 1 /\ OutstandingVideos = {} /\ ~op.detailsFailed)
    /\ op.detailsFailed =>
          /\ op.outcome = "error"
          /\ ~loading
          /\ downloadFiles = Null
          /\ op.filesToDownload = <<>>
          /\ op.commentRequests = <<>>
          /\ op.transcriptionCalls = 0
          /\ net = <<>>

C4_Witness ==
    /\ op.detailsFailed
    /\ op.scrapeMode = "both"
    /\ toasts # <<>>
    /\ toasts[Len(toasts)].description = VideoNotFoundMessage

\* C5: at most one remote request is outstanding at any time, a request is
\* outstanding exactly while loading is true, and no new operation starts
\* while loading is true.
C5_OneRequestAtATime ==
    /\ [](Len(net) <= 1 /\ (loading <=> Len(net) = 1) /\ (loading <=> op.pc # "idle"))
    /\ [][loading => opCount' = opCount]_vars

C5_Witness ==
    /\ loading
    /\ Len(net) = 1
    /\ net[1].url = "commentThreads"
    /\ Len(op.pages) >= 1
    /\ opCount < MaxOps

\* C6: the first getComments call of an operation carries no continuation
\* token, the (k+1)-th call carries the token the k-th call returned, and
\* there is a (k+1)-th call exactly when the k-th call returned a token.
C6_TokenChaining ==
    /\ Len(op.commentRequests) >= 1 => op.commentRequests[1] = Undefined
    /\ \A k \in 1..Len(op.pages) :
          /\ k + 1 <= Len(op.commentRequests) =>
                op.commentRequests[k + 1] = op.pages[k].nextPageToken
          /\ (k + 1 <= Len(op.commentRequests)) <=>
                (op.pages[k].nextPageToken # Undefined)
    /\ \A i \in 1..Len(net) :
          net[i].url = "commentThreads" =>
              net[i].pageToken = op.commentRequests[Len(op.commentRequests)]

C6_Witness ==
    /\ Len(op.commentRequests) >= 2
    /\ Len(op.pages) = Len(op.commentRequests)
    /\ op.commentRequests[2] \in PageTokens

\* The end-to-end scenario: credential "K", identifier "XYZ", comments only,
\* title "Test Video", description "Desc", one page without a token holding
\* two top-level comments, the first with one reply.
Scenario ==
    /\ op.outcome = "ok"
    /\ op.apiKey = K_key
    /\ op.videoId = W_XYZ
    /\ op.scrapeMode = "comments"
    /\ op.videoTitle = T_TestVideo
    /\ op.videoDescription = <<"Desc">>
    /\ op.pages = <<[items |-> <<RawItem1, RawItem2>>, nextPageToken |-> Undefined]>>

\* C7 as stated: in the scenario the one document's source line reads
\* "Comentários extraídos de: <url>".
C7_ScenarioDocumentAsStated ==
    Scenario =>
        /\ Len(downloadFiles) = 1
        /\ downloadFiles[1].content =
              "Test Video\n\nDesc\n\nComentários extraídos de: https://www.youtube.com/watch?v=XYZ\n\n-------------------------------------------------------\n\nAuthor1: text1\n  ReplyAuthor: replytext\nAuthor2: text2\n"

\* C7 (amended): in the scenario the operation outputs exactly one document
\* whose content is title, blank line, description, blank line, the line
\* "Conteúdo extraído de: https://www.youtube.com/watch?v=XYZ", blank line,
\* the 55-dash separator, blank line, then each top-level comment as
\* "<author>: <text>" in arrival order, its replies right after it indented
\* by two spaces.
C7_ScenarioDocument ==
    Scenario =>
        /\ Len(downloadFiles) = 1
        /\ downloadFiles[1].content =
              "Test Video\n\nDesc\n\nConteúdo extraído de: https://www.youtube.com/watch?v=XYZ\n\n-------------------------------------------------------\n\nAuthor1: text1\n  ReplyAuthor: replytext\nAuthor2: text2\n"

C7_Witness ==
    /\ Scenario
    /\ downloadFiles # Null
    /\ Len(downloadFiles) = 1

\* Position p of s lies outside every tag: each '<' at or before p is closed
\* by a '>' before p.
OutsideTags(s, p) ==
    \A q \in 1..p : s[q] = "<" => \E r \in q..(p - 1) : s[r] = ">"

\* Position p of s lies outside every closed tag: no '<' at or before p runs
\* unclosed up to p and is closed by a '>' at or after p.
OutsideClosedTags(s, p) ==
    ~ \E q \in 1..p :
          /\ s[q] = "<"
          /\ \A r \in q..(p - 1) : s[r] # ">"
          /\ \E r \in p..Len(s) : s[r] = ">"

\* The characters of s at the positions in keep, in order.
KeepPositions(s, keep) ==
    LET idx == SelectSeq([i \in 1..Len(s) |-> i], LAMBDA p : p \in keep)
    IN  [k \in 1..Len(idx) |-> s[idx[k]]]

\* C8 as stated: stripping deletes the spans from a '<' to the next '>' and
\* nothing else, so a '<' with no later '>' stays, with the text after it.
C8_StripOnlyClosedTags ==
    stripOut # NotCalled => stripOut = KeepPositions(stripIn, {p \in 1..Len(stripIn) : OutsideClosedTags(stripIn, p)})

\* C8 (amended): stripping deletes every span that begins at a '<' and runs
\* through the next '>', or to the end of the text when no '>' follows, and
\* nothing else: a '<' with no later '>' is deleted together with all the
\* text after it; "Hello <b>world</b>!" becomes "Hello world!".
C8_StripTagsAndUnclosedTail ==
    stripOut # NotCalled =>
        /\ stripOut = KeepPositions(stripIn, {p \in 1..Len(stripIn) : OutsideTags(stripIn, p)})
        /\ stripIn = T_Hello => Flat(stripOut) = "Hello world!"

C8_Witness ==
    /\ stripOut # NotCalled
    /\ \E q \in 2..(Len(stripIn) - 1) :
          /\ stripIn[q] = "<"
          /\ \A r \in q..Len(stripIn) : stripIn[r] # ">"
          /\ \E r \in 1..(q - 1) : stripIn[r] = ">"
          /\ stripOut # <<>>
          /\ Len(stripOut) < q

\* What the components of an input say about it.
UrlIsSpecial(p) == ToLower(p.scheme) \in SpecialSchemes
UrlIsAbsolute(p) == p.scheme # <<>> /\ (UrlIsSpecial(p) => p.host # <<>>)
UrlHostname(p) == IF UrlIsSpecial(p) THEN ToLower(p.host) ELSE p.host
UrlIsRecognized(p) ==
    /\ UrlIsAbsolute(p)
    /\ Includes(UrlHostname(p), youtube_com) \/ Includes(UrlHostname(p), youtu_be)
UrlHasV(p) == \E i \in 1..Len(p.query) : p.query[i].name = <<"v">>
UrlFirstV(p) ==
    p.query[CHOOSE i \in 1..Len(p.query) :
               p.query[i].name = <<"v">>
               /\ \A k \in 1..(i - 1) : p.query[k].name # <<"v">>].value

RECURSIVE JoinSegments(_)
JoinSegments(segments) ==
    IF segments = <<>> THEN <<>>
    ELSE IF Len(segments) = 1 THEN segments[1]
    ELSE segments[1] \o <<"/">> \o JoinSegments(Tail(segments))

FirstSegment(segments) == IF segments = <<>> THEN <<>> ELSE segments[1]

\* C9 as stated: for a short-link URL without a v parameter the result is
\* the first path segment only.
C9_ShortLinkFirstSegment ==
    (urlOut # NoResult /\ UrlIsRecognized(urlParts)) =>
        urlOut = Returned(IF UrlHasV(urlParts) THEN UrlFirstV(urlParts)
                          ELSE IF UrlHostname(urlParts) = youtu_be
                               THEN FirstSegment(urlParts.path)
                               ELSE urlIn)

\* C9 (amended): for an absolute URL whose host contains a recognized domain
\* extractVideoId returns the value of the (first) v query parameter when
\* there is one; otherwise, when the host is the short-link host, the whole
\* path without its leading separator (further segments and their
\* separators included); otherwise the input unchanged.
C9_RecognizedUrl ==
    (urlOut # NoResult /\ UrlIsRecognized(urlParts)) =>
        urlOut = Returned(IF UrlHasV(urlParts) THEN UrlFirstV(urlParts)
                          ELSE IF UrlHostname(urlParts) = youtu_be
                               THEN JoinSegments(urlParts.path)
                               ELSE urlIn)

C9_Witness ==
    /\ urlOut # NoResult
    /\ UrlIsRecognized(urlParts)
    /\ ~UrlHasV(urlParts)
    /\ UrlHostname(urlParts) = youtu_be
    /\ Len(urlParts.path) = 2
    /\ urlParts.path[2] # <<>>
    /\ urlOut.value = W_ABC \o <<"/">> \o W_def

\* C10: extractVideoId never throws, and an input that is no absolute URL,
\* or one whose host holds no recognized domain, is returned unchanged.
C10_NeverThrowsAndPassesThrough ==
    urlOut # NoResult =>
        /\ ~urlOut.threw
        /\ ~UrlIsRecognized(urlParts) => urlOut.value = urlIn

C10_Witness ==
    /\ urlOut # NoResult
    /\ ~UrlIsAbsolute(urlParts)
    /\ Includes(urlIn, youtu_be)
    /\ urlOut.value = urlIn

\* The characters a cleaned file name may hold.
FileNameChars == Range(LowerLetters) \cup Range(Digits) \cup {"_"}

\* C11: cleanFileName is total and idempotent: for every title, the empty one
\* included, it yields a result that holds only characters of [a-z0-9_], and
\* applied to its own result it yields that result again.
C11_CleanFileNameIdempotent ==
    /\ \A k \in 1..Len(cleanOut) : Range(cleanOut[k]) \subseteq FileNameChars
    /\ Len(cleanOut) = 2 => cleanOut[2] = cleanOut[1]
    /\ (cleanOut # <<>> /\ cleanIn = <<>>) => cleanOut[1] = <<>>
    /\ (cleanOut # <<>> /\ cleanIn = T_TestVideo) => Flat(cleanOut[1]) = "test_video"

C11_Witness ==
    /\ Len(cleanOut) = 2
    /\ Len(cleanIn) = 3
    /\ cleanIn[1] = "Ó" /\ cleanIn[2] = " " /\ cleanIn[3] = "é"
    /\ cleanOut[1] = <<"o", "_", "e">>

\* The documents of the batch: file name and content of each, in order.
BatchOf(files) ==
    [i \in 1..Len(files) |-> <<files[i].filename, files[i].content>>]

\* C12: a successful operation delivers, as one batch, exactly one document
\* per requested content type: the comments document in mode comments, the
\* transcription document in mode transcription, both in mode both with the
\* comments document first; every document begins with the same header, built
\* from the video details fetched by the operation's one details request;
\* and an operation in mode transcription issues no comments-page request.
C12_OneDocumentPerType ==
    /\ (downloadFiles # Null) <=> (op.outcome = "ok")
    /\ op.outcome = "ok" =>
          /\ op.detailsRequests = 1
          /\ \E sn \in Snippets :
                LET header == HeaderOf(sn.title, sn.description, WatchUrl(op.videoId))
                    commentsDocument ==
                        <<"Comentários_test_video.txt",
                          Flat(header \o CommentsBody(PagesComments(op.pages)))>>
                    transcriptionDocument ==
                        <<"Transcrição_test_video.txt",
                          Flat(header \o getTranscription(op.videoId))>>
                IN  BatchOf(downloadFiles) =
                        CASE op.scrapeMode = "comments" -> <<commentsDocument>>
                          [] op.scrapeMode = "transcription" -> <<transcriptionDocument>>
                          [] op.scrapeMode = "both" ->
                                <<commentsDocument, transcriptionDocument>>
    /\ op.scrapeMode = "transcription" =>
          /\ op.commentRequests = <<>>
          /\ op.pages = <<>>
          /\ \A i \in 1..Len(net) : net[i].url # "commentThreads"
    /\ (op.outcome = "ok" /\ op.scrapeMode # "transcription") =>
          Len(op.commentRequests) >= 1

C12_Witness ==
    /\ op.outcome = "ok"
    /\ op.scrapeMode = "both"
    /\ downloadFiles # Null
    /\ Len(downloadFiles) = 2
    /\ Len(op.pages) = 2
    /\ op.transcriptionCalls = 1

\* The entry of a response carries at least one reply.
HasReplies(item) == "replies" \in DOMAIN item /\ item.replies.comments # <<>>

\* C13: in every result of getComments each Comment stands for the entry of
\* the response at its position; its replies list, when present, is not
\* empty and none of its replies has a replies field; an entry whose replies
\* collection is absent or empty gives a Comment without a replies field, and
\* an entry with replies gives a Comment with as many replies.
C13_RepliesNonEmptyAndFlat ==
    (svc.pc = "done" /\ svc.fn = "getComments" /\ ~svc.result.throws) =>
        LET items == svc.response.data.items
            comments == svc.result.value.comments
        IN  /\ Len(comments) = Len(items)
            /\ \A i \in 1..Len(comments) :
                  /\ comments[i].id = items[i].id
                  /\ "replies" \in DOMAIN comments[i] =>
                        /\ Len(comments[i].replies) > 0
                        /\ \A j \in 1..Len(comments[i].replies) :
                              "replies" \notin DOMAIN comments[i].replies[j]
                  /\ ~HasReplies(items[i]) => "replies" \notin DOMAIN comments[i]
                  /\ HasReplies(items[i]) =>
                        /\ "replies" \in DOMAIN comments[i]
                        /\ Len(comments[i].replies) = Len(items[i].replies.comments)

C13_Witness ==
    /\ svc.pc = "done"
    /\ svc.fn = "getComments"
    /\ ~svc.result.throws
    /\ svc.response.data.items = <<RawItem1, RawItem2>>
    /\ "replies" \in DOMAIN svc.result.value.comments[1]
    /\ "replies" \notin DOMAIN svc.result.value.comments[2]

\* C14: with every request answered and a remote that in the end answers
\* with an error or a page without a continuation token, each started
\* operation ends, in success or in error, and loading is false again; until
\* then the flow is kept going only by pages that carried a token, and
\* loading is never true once the operation has ended.
C14_OperationEnds ==
    /\ \A n \in 1..MaxOps :
          (opCount = n /\ loading)
              ~> (opCount = n /\ ~loading /\ op.outcome \in {"ok", "error"})
    /\ [](op.pc = "awaitComments" =>
             \A k \in 1..Len(op.pages) : op.pages[k].nextPageToken \in PageTokens)
    /\ [](op.outcome \in {"ok", "error"} => (~loading /\ op.pc = "idle"))
    /\ [](loading => op.outcome = "running")

C14_Witness ==
    /\ op.outcome = "ok"
    /\ ~loading
    /\ Len(op.pages) = MaxPages
    /\ opCount = MaxOps

\* The notifications of the last handleDownload, when it was the last user action.
Delivered == toasts # <<>> /\ toasts[1].title = "Download Concluído"

\* C15: while an operation awaits a response (loading is true) downloadFiles
\* is null, and a validated operation clears it at its start; so whenever
\* there are documents to download they are the batch of the most recent
\* validated operation, which succeeded, handleDownload delivers exactly
\* those, and once that operation has failed there is none.
C15_OnlyLatestBatchDownloadable ==
    /\ [](loading => downloadFiles = Null)
    /\ [](downloadFiles # Null =>
             (op.outcome = "ok" /\ downloadFiles = op.filesToDownload
              /\ Len(downloadFiles) > 0))
    /\ [](op.outcome \in {"running", "error"} => downloadFiles = Null)
    /\ [](Delivered =>
             /\ op.outcome = "ok"
             /\ Len(toasts) = Len(op.filesToDownload)
             /\ \A i \in 1..Len(toasts) :
                   toasts[i].description =
                       <<"\"", op.filesToDownload[i].filename, "\" foi baixado.">>)
    /\ [][opCount' # opCount => downloadFiles' = Null]_vars
    /\ [][(downloadFiles # Null /\ downloadFiles # downloadFiles') =>
              (downloadFiles' = Null /\ opCount' # opCount)]_vars

C15_Witness ==
    /\ opCount = 2
    /\ op.outcome = "error"
    /\ op.commentsFailed
    /\ Len(op.pages) >= 1
    /\ ~loading
    /\ downloadFiles = Null

\* C16: a click on the trigger with an empty credential or an empty
\* identifier shows one error, the credential's when the credential is empty
\* and the identifier's otherwise, issues no request, starts no operation,
\* and leaves loading and downloadFiles as they were.
C16_ValidationFailureChangesNothing ==
    [][(fetchAndPrepareDownloads /\ (youtubeApiKey = <<>> \/ videoId = <<>>)) =>
          /\ toasts' = <<Toast("Erro",
                               IF youtubeApiKey = <<>>
                               THEN "Por favor, insira sua chave de API do YouTube."
                               ELSE "Por favor, insira um ID ou URL de vídeo do YouTube.")>>
          /\ net = <<>> /\ net' = <<>>
          /\ opCount' = opCount
          /\ op' = op
          /\ ~loading /\ ~loading'
          /\ downloadFiles = downloadFiles']_vars

C16_Witness ==
    /\ toasts = <<Toast("Erro", "Por favor, insira um ID ou URL de vídeo do YouTube.")>>
    /\ youtubeApiKey # <<>>
    /\ videoId = <<>>
    /\ op.outcome = "ok"
    /\ downloadFiles # Null
    /\ Len(downloadFiles) = 2

\* The watch URL with an empty v parameter, as typed.
EmptyVUrl == S_https \o <<":", "/", "/">> \o youtube_com \o <<"/", "w", "?", "v", "=">>

\* C17: after any sequence of changes of the identifier field the stored
\* videoId is empty exactly when the value entered last was empty: it is the
\* extraction of that value, or the value itself when the extraction is empty
\* or null (a watch URL with an empty v parameter, a short link with an
\* empty path).
C17_StoredIdEmptyOnlyForEmptyInput ==
    /\ (videoId = <<>>) <=> (inputValue = <<>>)
    /\ LET extractedId == extractVideoId(inputValue).value
       IN  IF extractedId = <<>> \/ extractedId = Null
           THEN videoId = inputValue
           ELSE videoId = extractedId

C17_Witness ==
    /\ inputValue = EmptyVUrl
    /\ extractVideoId(inputValue).value = <<>>
    /\ videoId = EmptyVUrl
    /\ opCount >= 1

=============================================================================
